---- MODULE Spec2Model ----
(***************************************************************************)
(* Model of src/role-based-design.cpp: the Composition idiom.              *)
(*                                                                         *)
(* The artifact is a compile-time mechanism, so the state machine is the   *)
(* build of one translation unit that uses the templates: it names a       *)
(* composite type (class template instantiation, lines 90-111), calls its  *)
(* constructor (lines 57-62, 114-124), instantiates accessor calls and the *)
(* example Role methods (lines 126-152, 185-207, 226-231), is built, and - *)
(* when the build produced no diagnostic - runs.                           *)
(*                                                                         *)
(* The templates are evaluated the way a C++20 compiler instantiates them  *)
(* (C++20 because of [[no_unique_address]], line 26).  Three places of the *)
(* file do not parse as written; they are read as their uses show:         *)
(*   - line 29: the primary IndexOf is declared with one parameter while   *)
(*     lines 34, 66 and 72 pass two (kind, TypeList); it is taken with two;*)
(*   - lines 117-118: the constructor forwards the names of its parameter  *)
(*     packs; it is taken to forward its i-th Role (Attribute) initializer *)
(*     to RolesTuple (AttributesTuple);                                     *)
(*   - lines 189, 190, 206: the dependent member templates are called      *)
(*     without the `template' keyword; they are taken as the calls.        *)
(* Everything else, the missing base case of IndexOf included, is modelled *)
(* as the language defines it.                                             *)
(***************************************************************************)
EXTENDS Integers, Sequences, FiniteSets, TLC

VARIABLES
    TRoles,          \* the declared Role kinds, TypeList<TRoles...>
    TAttributes,     \* the declared Attribute kinds, TypeList<TAttributes...>
    pc,              \* "declared", "type", "object", "linked", "finished"
    diags,           \* the diagnostics of the build so far
    hasObject,       \* the unit calls the constructor
    RoleArgs,        \* the Role initializers of the constructor call
    AttributeArgs,   \* the Attribute initializers of the constructor call
    uses,            \* the statements after the constructor call
    RolesTuple,      \* Composition::RolesTuple of the running program
    AttributesTuple, \* Composition::AttributesTuple of the running program
    observed,        \* what the last statement read or printed
    outcome          \* "none", "built", "build_failure"

vars == <<TRoles, TAttributes, pc, diags, hasObject, RoleArgs, AttributeArgs,
          uses, RolesTuple, AttributesTuple, observed, outcome>>

(* ---------------- bounds ---------------- *)
\* longest declared Role list / Attribute list
MaxKinds == 2
\* longest initializer list handed to the constructor
MaxArgs == 2
\* statements after the constructor call
MaxUses == 2

(* ---------------- the kinds of the file ---------------- *)
\* Types that can be listed as Roles: Logger (178), Mover (198) and the bare
\* marker Role (81), which is a Role kind that declares no RequiredAttributes.
RoleKinds == {"Logger", "Mover", "Role"}
\* Types that can be listed as Attributes: Transform (164), Category (168),
\* and Logger (178) as the kind with a user-provided constructor.
AttributeKinds == {"Transform", "Category", "Logger"}
Kinds == RoleKinds \cup AttributeKinds
\* Kinds of the initializer expressions; String is std::string (line 183).
RoleArgKinds == {"Logger", "Mover", "String"}
AttributeArgKinds == {"Transform", "Category", "String"}
\* Payload of an initializer: Transform.X, Category.Name, Logger.Context.
Vals == {0, 100}
Deltas == {5}

\* IndexOf<T, TypeList<>>::value: the member of an incomplete type.
Incomplete == -1
\* A SimpleTuple is the sequence of its stored instances (Head first, then
\* those of Tail); NoTuple stands for "the initialization does not build"
\* and, in the state, for "not constructed".
NoTuple == [built |-> FALSE, elems |-> <<>>]
EmptyTuple == [built |-> TRUE, elems |-> <<>>]
Cons(head, tail) == [built |-> TRUE, elems |-> <<head>> \o tail.elems]

\* `using RequiredAttributes = ...' (181, 201): Logger and Mover declare
\* it; the marker Role (81) and the Attribute structs have no such member.
HasRequiredAttributes(K) == K \in {"Logger", "Mover"}

RequiredAttributes(K) ==
    IF K = "Mover" THEN <<"Transform">> ELSE <<>>

\* std::is_aggregate_v: Logger has a user-provided constructor and a private
\* member (183, 195); the others are aggregates with public empty bases.
is_aggregate(K) == K \in {"Transform", "Category", "Mover", "Role"}

\* Logger's only constructor takes a string (183).
is_default_constructible(K) == K # "Logger"

\* Direct-initialization Head(std::forward<HeadArg>(head)) (line 61):
\* copy of the same kind; Logger from a string (explicit constructor, 183);
\* an aggregate from a kind derived from its empty base (the base subobject
\* is copied from the argument, the members take their defaults).
is_constructible(K, A) ==
    \/ K = A
    \/ K = "Logger" /\ A = "String"
    \/ K \in {"Mover", "Role"} /\ A \in {"Logger", "Mover", "Role"}
    \/ K \in {"Transform", "Category"} /\ A \in {"Transform", "Category"}

DefaultVal == 0

\* The object that Head(arg) constructs.
ConstructFrom(K, arg) ==
    IF K = arg.kind \/ (K = "Logger" /\ arg.kind = "String")
    THEN [kind |-> K, val |-> arg.val]
    ELSE [kind |-> K, val |-> DefaultVal]

(* ---------------- TypeList helpers of the compile-time checks ---------- *)
\* A pack compared with its first kind only, the fold left out.
IsTypeInPack_HeadOnly(T, TPack) ==
    TPack # <<>> /\ T = Head(TPack)

\* (std::is_same_v<T, TPack> || ...), line 98
RECURSIVE IsTypeInPack(_, _)
IsTypeInPack(T, TPack) ==
    IF TPack = <<>> THEN FALSE
    ELSE T = Head(TPack) \/ IsTypeInPack(T, Tail(TPack))

\* CheckRoleDependencies<TypeList<TRequired...>>::AllPresent, lines 100-105
RECURSIVE AllPresent(_, _)
AllPresent(TRequired, TAttrs) ==
    IF TRequired = <<>> THEN TRUE
    ELSE IsTypeInPack(Head(TRequired), TAttrs) /\ AllPresent(Tail(TRequired), TAttrs)

\* The fold over the Roles written with || in place of &&.
DependenciesMet_AnyRole(Roles, TAttrs) ==
    \E i \in 1..Len(Roles) : AllPresent(RequiredAttributes(Roles[i]), TAttrs)

\* DependenciesMet, line 107 (every role has its RequiredAttributes here)
RECURSIVE DependenciesMet(_, _)
DependenciesMet(Roles, TAttrs) ==
    IF Roles = <<>> THEN TRUE
    ELSE AllPresent(RequiredAttributes(Head(Roles)), TAttrs)
         /\ DependenciesMet(Tail(Roles), TAttrs)

\* (std::is_aggregate_v<TAttributes> && ...), line 110
AllAggregates(TAttrs) == \A i \in 1..Len(TAttrs) : is_aggregate(TAttrs[i])

(* ---------------- diagnostics ---------------- *)
D_NoRequired == "no type named RequiredAttributes"          \* line 107
D_Deps       == "static_assert: missing required attribute" \* line 108
D_Aggregate  == "static_assert: attribute not an aggregate" \* line 110
D_RoleCount  == "static_assert: number of Roles"            \* line 120
D_AttrCount  == "static_assert: number of Attributes"       \* line 122
D_TupleInit  == "SimpleTuple: no matching initialization"   \* lines 57-62
D_NoRole     == "static_assert: Role does not exist"        \* lines 132, 138
D_NoAttr     == "static_assert: Attribute does not exist"   \* lines 144, 150
D_IndexOf    == "incomplete type IndexOf<T, TypeList<>>"    \* lines 35, 66

ClassDiagNames == {D_NoRequired, D_Deps, D_Aggregate}
CtorDiagNames == {D_RoleCount, D_AttrCount, D_TupleInit}

\* Instantiating Composition<Derived, TypeList<Roles...>, TypeList<Attrs...>>:
\* naming TRoles::RequiredAttributes of a kind without that member is an
\* error; otherwise the two static_asserts decide.
ClassDiagnostics(Roles, TAttrs) ==
    (IF \E i \in 1..Len(Roles) : ~HasRequiredAttributes(Roles[i])
     THEN {D_NoRequired}
     ELSE IF DependenciesMet(Roles, TAttrs) THEN {} ELSE {D_Deps})
    \cup (IF AllAggregates(TAttrs) THEN {} ELSE {D_Aggregate})

(* ---------------- SimpleTuple ---------------- *)
\* SimpleTuple<Types...> built from no initializer: `SimpleTuple() = default'
\* (line 57) default-constructs Head and Tail; it is deleted when a kind
\* has no default constructor.  SimpleTuple<> is the empty class (line 21).
RECURSIVE DefaultTuple(_)
DefaultTuple(Types) ==
    IF Types = <<>> THEN EmptyTuple
    ELSE LET tail == DefaultTuple(Tail(Types))
         IN IF ~tail.built \/ ~is_default_constructible(Head(Types))
            THEN NoTuple
            ELSE Cons([kind |-> Head(Types), val |-> DefaultVal], tail)

\* SimpleTuple(HeadArg&& head, TailArgs&&... tail), lines 59-62:
\* Head(head), Tail(tail...).  With no argument left the defaulted
\* constructor is chosen; SimpleTuple<> accepts no initializer.
\* NoTuple stands for "the call does not build".
RECURSIVE SimpleTupleCtor(_, _)
SimpleTupleCtor(Types, Args) ==
    IF Args = <<>> THEN DefaultTuple(Types)
    ELSE IF Types = <<>> THEN NoTuple
    ELSE LET tail == SimpleTupleCtor(Tail(Types), Tail(Args))
         IN IF ~tail.built \/ ~is_constructible(Head(Types), Head(Args).kind)
            THEN NoTuple
            ELSE Cons(ConstructFrom(Head(Types), Head(Args)), tail)

\* IndexOf<T, TypeList<First, Rest...>>::value, lines 29-36.  The primary
\* template is only declared, so IndexOf<T, TypeList<>> is an incomplete
\* type.  The initializer names IndexOf<T, TypeList<Rest...>>::value in the
\* third operand of ?:, and an operand is instantiated whether or not it is
\* selected: the recursion always runs down to TypeList<>.
RECURSIVE IndexOf(_, _)
IndexOf(T, List) ==
    IF List = <<>> THEN Incomplete
    ELSE LET rest == IndexOf(T, Tail(List))
         IN IF rest = Incomplete THEN Incomplete
            ELSE IF T = Head(List) THEN 0 ELSE 1 + rest

\* SimpleTuple::Get<T>(), lines 64-74: diagnostics of instantiating it.
GetDiagnostics(T, Types) ==
    IF IndexOf(T, Types) = Incomplete THEN {D_IndexOf} ELSE {}

\* GetByIndexImpl<N>(), lines 38-54: Head for N = 0, else Tail's N - 1.
RECURSIVE GetByIndexImpl(_, _)
GetByIndexImpl(elems, N) ==
    IF N = 0 THEN Head(elems) ELSE GetByIndexImpl(Tail(elems), N - 1)

\* The tuple after a store through the reference GetByIndexImpl<N>() returns.
RECURSIVE StoreByIndexImpl(_, _, _)
StoreByIndexImpl(elems, N, inst) ==
    IF N = 0 THEN <<inst>> \o Tail(elems)
    ELSE <<Head(elems)>> \o StoreByIndexImpl(Tail(elems), N - 1, inst)

\* Get<T>() of a built program, lines 64-68, and a store through it.
Get(elems, T, Types) == GetByIndexImpl(elems, IndexOf(T, Types))
Put(elems, T, Types, inst) == StoreByIndexImpl(elems, IndexOf(T, Types), inst)

(* ---------------- Composition ---------------- *)
\* HasRole<T>() / HasAttribute<T>(), lines 127-128
HasRole(T, Roles) == IsTypeInPack(T, Roles)
HasAttribute(T, TAttrs) == IsTypeInPack(T, TAttrs)

\* Composition(TypeList<RoleArgs...>, TypeList<AttributeArgs...>), 114-124
CtorDiagnostics(Roles, TAttrs, RArgs, AArgs) ==
    (IF Len(Roles) = Len(RArgs) THEN {} ELSE {D_RoleCount})
    \cup (IF Len(TAttrs) = Len(AArgs) THEN {} ELSE {D_AttrCount})
    \cup (IF SimpleTupleCtor(Roles, RArgs).built
             /\ SimpleTupleCtor(TAttrs, AArgs).built
          THEN {} ELSE {D_TupleInit})

\* Role<T>(), lines 130-140
RoleDiagnostics(T, Roles) ==
    (IF HasRole(T, Roles) THEN {} ELSE {D_NoRole})
    \cup GetDiagnostics(T, Roles)

\* Attribute<T>(), lines 142-152
AttributeDiagnostics(T, TAttrs) ==
    (IF HasAttribute(T, TAttrs) THEN {} ELSE {D_NoAttr})
    \cup GetDiagnostics(T, TAttrs)

(* ---------------- the statements at run time ---------------- *)
Nothing == [kind |-> "none", val |-> 0]

\* One statement of a built program on the two tuples.
Step(s, st, Roles, TAttrs) ==
    CASE s.op = "Role" ->       \* Role<K>(), line 133
           [st EXCEPT !.observed = Get(st.roles, s.kind, Roles)]
      [] s.op = "Attribute" ->  \* Attribute<K>(), line 145
           [st EXCEPT !.observed = Get(st.attrs, s.kind, TAttrs)]
      [] s.op = "MoveX" ->      \* InHost.Attribute<Transform>().X += DeltaX, 206
           LET t == Get(st.attrs, "Transform", TAttrs)
           IN [st EXCEPT !.attrs = Put(st.attrs, "Transform", TAttrs,
                                       [t EXCEPT !.val = t.val + s.arg])]
      [] s.op = "SetName" ->    \* Attribute<Category>().SetName(v), 226, 171
           LET c == Get(st.attrs, "Category", TAttrs)
           IN [st EXCEPT !.attrs = Put(st.attrs, "Category", TAttrs,
                                       [c EXCEPT !.val = s.arg])]
      [] OTHER ->               \* Log, lines 186-193
           [st EXCEPT !.observed =
              [kind |-> "Log",
               val |-> IF HasAttribute("Category", TAttrs)
                       THEN Get(st.attrs, "Category", TAttrs).val
                       ELSE Get(st.roles, "Logger", Roles).val]]

RECURSIVE Execute(_, _, _, _)
Execute(stmts, st, Roles, TAttrs) ==
    IF stmts = <<>> THEN st
    ELSE Execute(Tail(stmts), Step(Head(stmts), st, Roles, TAttrs), Roles, TAttrs)

(* ---------------- inputs ---------------- *)
SeqsUpTo(S, n) == UNION {[1..k -> S] : k \in 0..n}

RoleInitializers == [kind : RoleArgKinds, val : {0}]
AttributeInitializers ==
    {a \in [kind : AttributeArgKinds, val : Vals] :
        a.kind = "Transform" \/ a.val = 0}

(* ---------------- the translation unit ---------------- *)
Init ==
    /\ TRoles \in SeqsUpTo(RoleKinds, MaxKinds)
    /\ TAttributes \in SeqsUpTo(AttributeKinds, MaxKinds)
    /\ pc = "declared"
    /\ diags = {}
    /\ hasObject = FALSE
    /\ RoleArgs = <<>>
    /\ AttributeArgs = <<>>
    /\ uses = <<>>
    /\ RolesTuple = NoTuple
    /\ AttributesTuple = NoTuple
    /\ observed = Nothing
    /\ outcome = "none"

\* class X : public Composition<X, TypeList<TRoles...>, TypeList<TAttributes...>>
\* (lines 212-215): the class template is instantiated, lines 90-111.
InstantiateComposition ==
    /\ pc = "declared"
    /\ pc' = "type"
    /\ diags' = ClassDiagnostics(TRoles, TAttributes)
    /\ UNCHANGED <<TRoles, TAttributes, hasObject, RoleArgs, AttributeArgs,
                   uses, RolesTuple, AttributesTuple, observed, outcome>>

\* The constructor call of lines 220-223 with the given initializers.
InstantiateConstructor ==
    /\ pc = "type"
    /\ \E ra \in SeqsUpTo(RoleInitializers, MaxArgs),
          aa \in SeqsUpTo(AttributeInitializers, MaxArgs) :
          /\ RoleArgs' = ra
          /\ AttributeArgs' = aa
          /\ diags' = diags \cup CtorDiagnostics(TRoles, TAttributes, ra, aa)
    /\ pc' = "object"
    /\ hasObject' = TRUE
    /\ UNCHANGED <<TRoles, TAttributes, uses, RolesTuple, AttributesTuple,
                   observed, outcome>>

\* Statements are written against a constructed object: they are explored
\* for the units whose composite type and constructor call produced no
\* diagnostic (the other units are build failures already).
CanUse ==
    /\ pc = "object"
    /\ ClassDiagnostics(TRoles, TAttributes) = {}
    /\ CtorDiagnostics(TRoles, TAttributes, RoleArgs, AttributeArgs) = {}
    /\ Len(uses) < MaxUses

Use(stmt, d) ==
    /\ uses' = Append(uses, [stmt EXCEPT !.diags = d])
    /\ diags' = diags \cup d
    /\ UNCHANGED <<TRoles, TAttributes, pc, hasObject, RoleArgs,
                   AttributeArgs, RolesTuple, AttributesTuple, observed, outcome>>

\* A call Role<K>() on the object, lines 130-134.
InstantiateRole ==
    /\ CanUse
    /\ \E K \in Kinds :
          Use([op |-> "Role", kind |-> K, arg |-> 0, diags |-> {}],
              RoleDiagnostics(K, TRoles))

\* A call Attribute<K>() on the object, lines 142-146.
InstantiateAttribute ==
    /\ CanUse
    /\ \E K \in Kinds :
          Use([op |-> "Attribute", kind |-> K, arg |-> 0, diags |-> {}],
              AttributeDiagnostics(K, TAttributes))

\* Role<Mover>().MoveX(*this, d), line 230 with lines 203-207:
\* InHost.Attribute<Transform>().X += DeltaX.
InstantiateMoveX ==
    /\ CanUse
    /\ \E d \in Deltas :
          Use([op |-> "MoveX", kind |-> "Mover", arg |-> d, diags |-> {}],
              RoleDiagnostics("Mover", TRoles)
                \cup AttributeDiagnostics("Transform", TAttributes))

\* Attribute<Category>().SetName(v), line 226 with line 171.
InstantiateSetName ==
    /\ CanUse
    /\ \E v \in Vals :
          Use([op |-> "SetName", kind |-> "Category", arg |-> v, diags |-> {}],
              AttributeDiagnostics("Category", TAttributes))

\* Role<Logger>().Log(*this, msg), line 231 with lines 185-193: the read of
\* Attribute<Category>() is instantiated only when HasAttribute<Category>().
InstantiateLog ==
    /\ CanUse
    /\ Use([op |-> "Log", kind |-> "Logger", arg |-> 0, diags |-> {}],
           RoleDiagnostics("Logger", TRoles)
             \cup (IF HasAttribute("Category", TAttributes)
                   THEN AttributeDiagnostics("Category", TAttributes)
                   ELSE {}))

\* The end of the translation unit: it builds iff nothing was diagnosed.
Build ==
    /\ pc \in {"type", "object"}
    /\ pc' = "linked"
    /\ outcome' = IF diags = {} THEN "built" ELSE "build_failure"
    /\ UNCHANGED <<TRoles, TAttributes, diags, hasObject, RoleArgs,
                   AttributeArgs, uses, RolesTuple, AttributesTuple,
                   observed>>

\* Running a built program (main, lines 237-241): the constructor
\* initializes the two tuples (lines 117-118, 59-62), then the statements
\* run in order.
Run ==
    /\ pc = "linked"
    /\ outcome = "built"
    /\ pc' = "finished"
    /\ IF hasObject
       THEN LET st == Execute(uses,
                        [roles |-> SimpleTupleCtor(TRoles, RoleArgs).elems,
                         attrs |-> SimpleTupleCtor(TAttributes, AttributeArgs).elems,
                         observed |-> Nothing],
                        TRoles, TAttributes)
            IN /\ RolesTuple' = [built |-> TRUE, elems |-> st.roles]
               /\ AttributesTuple' = [built |-> TRUE, elems |-> st.attrs]
               /\ observed' = st.observed
       ELSE UNCHANGED <<RolesTuple, AttributesTuple, observed>>
    /\ UNCHANGED <<TRoles, TAttributes, diags, hasObject, RoleArgs,
                   AttributeArgs, uses, outcome>>

Next ==
    \/ InstantiateComposition
    \/ InstantiateConstructor
    \/ InstantiateRole
    \/ InstantiateAttribute
    \/ InstantiateMoveX
    \/ InstantiateSetName
    \/ InstantiateLog
    \/ Build
    \/ Run

Spec == Init /\ [][Next]_vars

\* The composite type alone: the declaration and its instantiation.
TypeNext == InstantiateComposition

TypeSpec == Init /\ [][TypeNext]_vars

(* ======================= the claims ======================= *)
Range(seq) == {seq[i] : i \in 1..Len(seq)}
Reorderings(seq) ==
    {[i \in 1..Len(seq) |-> seq[p[i]]] : p \in Permutations(1..Len(seq))}
Distinct(seq) == \A i, j \in 1..Len(seq) : seq[i] = seq[j] => i = j
KindsOf(args) == [i \in 1..Len(args) |-> args[i].kind]
Done == (pc = "linked" /\ outcome = "build_failure") \/ pc = "finished"
TypeRejected == diags \cap ClassDiagNames # {}

\* Some Role has a required Attribute kind that is not declared.
UnmetRequirement ==
    \E i \in 1..Len(TRoles) :
        /\ HasRequiredAttributes(TRoles[i])
        /\ Range(RequiredAttributes(TRoles[i])) \ Range(TAttributes) # {}

NonAggregateAttribute == \E a \in Range(TAttributes) : ~is_aggregate(a)

\* C1: a composite declaration in which some Role has a required Attribute
\* kind that is not declared, or some declared Attribute kind is not a plain
\* aggregate, is rejected when the type is instantiated, and the verdict is
\* the same for every reordering of the two declared lists.
C1_ViolatingDeclarationRejected ==
    pc # "declared" =>
        /\ (UnmetRequirement \/ NonAggregateAttribute) => TypeRejected
        /\ \A r \in Reorderings(TRoles), a \in Reorderings(TAttributes) :
              TypeRejected <=> ClassDiagnostics(r, a) # {}

\* Lines 246-249: Mover with the Attribute list {Category} is rejected by the
\* dependency static_assert.
C1_Witness ==
    /\ pc = "type"
    /\ TRoles = <<"Mover">>
    /\ TAttributes = <<"Category">>
    /\ D_Deps \in diags

PlayerUnit ==
    /\ TRoles = <<"Logger", "Mover">>
    /\ TAttributes = <<"Transform", "Category">>
    /\ RoleArgs = <<[kind |-> "Logger", val |-> 0], [kind |-> "Mover", val |-> 0]>>
    /\ AttributeArgs = <<[kind |-> "Transform", val |-> 100],
                         [kind |-> "Category", val |-> 0]>>

\* C3: Player constructed with Transform{100,0,0}, then MoveX with delta 5:
\* the program ends with Transform.X = 105.
C3_MoveXAddsDelta ==
    (/\ Done
     /\ PlayerUnit
     /\ Len(uses) = 1
     /\ uses[1].op = "MoveX")
    => /\ outcome = "built"
       /\ AttributesTuple.built
       /\ AttributesTuple.elems[1].val = 100 + uses[1].arg

\* C4: a value written through Attribute<Category>() (SetName, line 226) is
\* the value a later Attribute<Category>() call reads (Log, line 190).
C4_WriteVisibleThroughLaterCall ==
    (/\ Done
     /\ Len(uses) = 2
     /\ uses[1].op = "SetName"
     /\ uses[2].op = "Log"
     /\ KindsOf(RoleArgs) = TRoles
     /\ KindsOf(AttributeArgs) = TAttributes
     /\ HasAttribute("Category", TAttributes)
     /\ HasRole("Logger", TRoles))
    => /\ outcome = "built"
       /\ observed = [kind |-> "Log", val |-> uses[1].arg]

\* C5: after a construction whose initializers have the declared kinds, the
\* i-th stored Role (Attribute) is the i-th initializer, and Role<K_i>() /
\* Attribute<K_i>() yields it.
C5_InitializersBoundInOrder ==
    (/\ Done
     /\ hasObject
     /\ ~TypeRejected
     /\ KindsOf(RoleArgs) = TRoles
     /\ KindsOf(AttributeArgs) = TAttributes
     /\ Distinct(TRoles) /\ Distinct(TAttributes)
     /\ Len(uses) = 1
     /\ \/ uses[1].op = "Role" /\ uses[1].kind \in Range(TRoles)
        \/ uses[1].op = "Attribute" /\ uses[1].kind \in Range(TAttributes))
    => /\ outcome = "built"
       /\ RolesTuple.elems = [i \in 1..Len(TRoles) |->
                                [kind |-> TRoles[i], val |-> RoleArgs[i].val]]
       /\ AttributesTuple.elems = [i \in 1..Len(TAttributes) |->
                                [kind |-> TAttributes[i], val |-> AttributeArgs[i].val]]
       /\ observed.kind = uses[1].kind
       /\ \E i \in 1..Len(TRoles) \cup 1..Len(TAttributes) :
             \/ /\ uses[1].op = "Role" /\ i <= Len(TRoles)
                /\ observed = [kind |-> TRoles[i], val |-> RoleArgs[i].val]
             \/ /\ uses[1].op = "Attribute" /\ i <= Len(TAttributes)
                /\ observed = [kind |-> TAttributes[i], val |-> AttributeArgs[i].val]

\* C6: a construction whose number of Role or Attribute initializers differs
\* from the number of declared kinds, or with an initializer of another kind
\* than the kind declared at its position, is rejected, by the composite and
\* by each storage container (the kinds of the initializers are the declared
\* kinds, one for one, or the construction does not build); stated for the
\* composite types that are themselves accepted.
C6_MismatchedInitializersRejected ==
    (pc = "object" /\ ~TypeRejected) =>
        /\ (KindsOf(RoleArgs) # TRoles \/ KindsOf(AttributeArgs) # TAttributes)
           => diags # {}
        /\ KindsOf(RoleArgs) # TRoles => ~SimpleTupleCtor(TRoles, RoleArgs).built
        /\ KindsOf(AttributeArgs) # TAttributes
             => ~SimpleTupleCtor(TAttributes, AttributeArgs).built

\* C7: a call Role<K>() builds exactly when HasRole<K>() is true, and a call
\* Attribute<K>() builds exactly when HasAttribute<K>() is true.
C7_AccessorUsableIffDeclared ==
    \A i \in 1..Len(uses) :
        /\ uses[i].op = "Role"
             => (uses[i].diags = {} <=> HasRole(uses[i].kind, TRoles))
        /\ uses[i].op = "Attribute"
             => (uses[i].diags = {} <=> HasAttribute(uses[i].kind, TAttributes))

\* What a Role requires when a missing RequiredAttributes counts as empty.
RequiredOrEmpty(r) ==
    IF HasRequiredAttributes(r) THEN Range(RequiredAttributes(r)) ELSE {}

\* C8: a Role kind that declares no RequiredAttributes requires nothing: a
\* declaration whose Roles' requirements (empty when undeclared) are all
\* declared Attributes, with aggregate Attributes, is accepted.
C8_UndeclaredRequirementsAreEmpty ==
    (/\ pc # "declared"
     /\ \A r \in Range(TRoles) : RequiredOrEmpty(r) \subseteq Range(TAttributes)
     /\ \A a \in Range(TAttributes) : is_aggregate(a))
    => ~TypeRejected

\* C9: in every accepted composite type the declared Role kinds are pairwise
\* distinct and the declared Attribute kinds are pairwise distinct.
C9_AcceptedKindsDistinct ==
    (pc # "declared" /\ ~TypeRejected)
    => (Distinct(TRoles) /\ Distinct(TAttributes))

\* C10: a mutation through Attribute<K>() changes the stored instance of K
\* and nothing else: after MoveX or SetName on a composite that declares the
\* kinds involved, the Roles are as constructed and so is every Attribute
\* other than the one written, which holds the written value.
C10_MutationChangesOnlyItsKind ==
    (/\ Done
     /\ Len(uses) = 1
     /\ Distinct(TAttributes)
     /\ KindsOf(RoleArgs) = TRoles
     /\ KindsOf(AttributeArgs) = TAttributes
     /\ \/ /\ uses[1].op = "MoveX"
           /\ HasRole("Mover", TRoles)
           /\ HasAttribute("Transform", TAttributes)
        \/ /\ uses[1].op = "SetName"
           /\ HasAttribute("Category", TAttributes))
    => /\ outcome = "built"
       /\ RolesTuple = SimpleTupleCtor(TRoles, RoleArgs)
       /\ LET K == IF uses[1].op = "MoveX" THEN "Transform" ELSE "Category"
              was == SimpleTupleCtor(TAttributes, AttributeArgs).elems
          IN \A i \in 1..Len(TAttributes) :
                IF TAttributes[i] = K
                THEN AttributesTuple.elems[i].val =
                        IF uses[1].op = "MoveX" THEN was[i].val + uses[1].arg
                        ELSE uses[1].arg
                ELSE AttributesTuple.elems[i] = was[i]

====
